---- MODULE Spec2Model ----
(***************************************************************************)
(* GEOAlgorithm (strategy_geos.go): every operation serializes its         *)
(* geometry arguments with MarshalString, calls the function of the geo    *)
(* engine package, and, when the engine hands back geometry text,          *)
(* deserializes it with UnmarshalString.                                   *)
(*                                                                         *)
(* The engine (package geo) is external: its answer to a request is a      *)
(* nondeterministic pair (value, error).  MarshalString / UnmarshalString  *)
(* belong to this package but are not part of strategy_geos.go; they are   *)
(* modelled from the specification: the geometry variants of section 3 and *)
(* the text codec of sections 4.1 and 6.                                   *)
(***************************************************************************)
EXTENDS Integers, Sequences, FiniteSets

VARIABLES heap, calls, codec

vars == <<heap, calls, codec>>

\* ------------------------------------------------------------------ bounds
NumObjs == 2
NumCalls == 2
\* A coordinate is a decimal number with Precision fractional digits, held
\* as the integer number of units of 10^-Precision.
Precision == 1
\* Tuples of a line or of a ring before it is closed; parts of a multi
\* geometry or collection, and rings of a polygon.
MaxPts == 3
MaxParts == 2

ObjIds == 1..NumObjs
ScalarVals == {1, 8}

\* ------------------------------------------------------------ error values
Nil == "nil"
EngineErr == "EngineError"
ParseErr == "ParseError"

\* ------------------------------------------------------- the Geometry model
\* coords of a Point is one tuple in a list; of a LineString a list of
\* tuples; of a Polygon a list of rings; of a MultiPoint, MultiLineString,
\* MultiPolygon a list of the coords of its parts; of a GeometryCollection
\* the list of its member geometries.  A tuple is x y or x y z.  The empty
\* geometry of a variant has coords <<>>.
NilGeom == [kind |-> "nil", coords |-> <<>>]
Kinds ==
  {"Point", "LineString", "Polygon", "MultiPoint", "MultiLineString",
   "MultiPolygon", "GeometryCollection"}

Geom(k, cs) == [kind |-> k, coords |-> cs]

Closed(open) == Append(open, open[1])

\* How deep the parenthesized lists of a variant nest below its outer pair.
Depth(k) ==
  CASE k \in {"Point", "LineString"} -> 1
    [] k \in {"Polygon", "MultiPoint", "MultiLineString"} -> 2
    [] k = "MultiPolygon" -> 3

RECURSIVE Flatten(_, _)
Flatten(d, xs) ==
  IF d = 1 \/ xs = <<>> THEN xs
  ELSE Flatten(d - 1, xs[1]) \o Flatten(d, Tail(xs))

LineOk(l) == Len(l) >= 2
RingOk(r) == Len(r) >= 4 /\ r[1] = r[Len(r)]
PolygonOk(p) == Len(p) >= 1 /\ \A i \in 1..Len(p) : RingOk(p[i])

\* every tuple of a non-empty list is x y, or every tuple is x y z
Uniform(ts) ==
  /\ ts # <<>>
  /\ Len(ts[1]) \in {2, 3}
  /\ \A i \in 1..Len(ts) : Len(ts[i]) = Len(ts[1])

\* The structural invariant of each variant (spec section 3).
RECURSIVE WellFormed(_)
WellFormed(g) ==
  \/ g.coords = <<>>
  \/ /\ g.kind = "GeometryCollection"
     /\ \A i \in 1..Len(g.coords) : WellFormed(g.coords[i])
  \/ /\ g.kind # "GeometryCollection"
     /\ Uniform(Flatten(Depth(g.kind), g.coords))
     /\ CASE g.kind = "Point" -> Len(g.coords) = 1
          [] g.kind = "LineString" -> LineOk(g.coords)
          [] g.kind = "Polygon" -> PolygonOk(g.coords)
          [] g.kind = "MultiPoint" ->
               \A i \in 1..Len(g.coords) : Len(g.coords[i]) = 1
          [] g.kind = "MultiLineString" ->
               \A i \in 1..Len(g.coords) : LineOk(g.coords[i])
          [] g.kind = "MultiPolygon" ->
               \A i \in 1..Len(g.coords) : PolygonOk(g.coords[i])

SpatialEq(a, b) == a.kind = b.kind /\ a.coords = b.coords

\* ------------------------------------------------ the text exchange format
\* A text is the sequence of its symbols: a keyword is one symbol, every
\* other character (digit, sign, point, exponent mark, space, comma,
\* parenthesis) is a symbol of its own.
Digits == <<"0", "1", "2", "3", "4", "5", "6", "7", "8", "9">>

RECURSIVE Pow10(_)
Pow10(n) == IF n = 0 THEN 1 ELSE 10 * Pow10(n - 1)

Abs(n) == IF n < 0 THEN -n ELSE n

RECURSIVE FormatNat(_)
FormatNat(n) ==
  IF n < 10 THEN <<Digits[n + 1]>>
  ELSE FormatNat(n \div 10) \o <<Digits[(n % 10) + 1]>>

\* n written with exactly k digits
RECURSIVE FormatFrac(_, _)
FormatFrac(n, k) ==
  IF k = 0 THEN <<>>
  ELSE FormatFrac(n \div 10, k - 1) \o <<Digits[(n % 10) + 1]>>

\* A formatter that writes one fractional digit fewer than the coordinates
\* carry.
FormatNumberShort(n) ==
  (IF n < 0 THEN <<"-">> ELSE <<>>)
    \o FormatNat(Abs(n) \div Pow10(Precision))
    \o (IF Precision <= 1 THEN <<>>
        ELSE <<".">> \o FormatFrac((Abs(n) % Pow10(Precision)) \div 10, Precision - 1))

\* Decimal notation with a fixed number of fractional digits: sign, integer
\* part, point, Precision digits.
FormatNumber(n) ==
  (IF n < 0 THEN <<"-">> ELSE <<>>)
    \o FormatNat(Abs(n) \div Pow10(Precision))
    \o (IF Precision = 0 THEN <<>>
        ELSE <<".">> \o FormatFrac(Abs(n) % Pow10(Precision), Precision))

\* the numbers of a tuple, single spaces between them
RECURSIVE FormatTuple(_)
FormatTuple(t) ==
  FormatNumber(t[1])
    \o (IF Len(t) = 1 THEN <<>> ELSE <<" ">> \o FormatTuple(Tail(t)))

\* the items of a list, commas between them; below depth 1 every item is a
\* parenthesized list
RECURSIVE FormatList(_, _)
FormatList(d, xs) ==
  (IF d = 1 THEN FormatTuple(xs[1])
   ELSE <<"(">> \o FormatList(d - 1, xs[1]) \o <<")">>)
    \o (IF Len(xs) = 1 THEN <<>> ELSE <<",">> \o FormatList(d, Tail(xs)))

Keyword(k) ==
  CASE k = "Point" -> "POINT"
    [] k = "LineString" -> "LINESTRING"
    [] k = "Polygon" -> "POLYGON"
    [] k = "MultiPoint" -> "MULTIPOINT"
    [] k = "MultiLineString" -> "MULTILINESTRING"
    [] k = "MultiPolygon" -> "MULTIPOLYGON"
    [] k = "GeometryCollection" -> "GEOMETRYCOLLECTION"

\* the variant keyword, in either case
KindOf(kw) ==
  CASE kw \in {"POINT", "point", "Point"} -> "Point"
    [] kw \in {"LINESTRING", "linestring", "LineString"} -> "LineString"
    [] kw \in {"POLYGON", "polygon", "Polygon"} -> "Polygon"
    [] kw \in {"MULTIPOINT", "multipoint", "MultiPoint"} -> "MultiPoint"
    [] kw \in {"MULTILINESTRING", "multilinestring", "MultiLineString"} ->
         "MultiLineString"
    [] kw \in {"MULTIPOLYGON", "multipolygon", "MultiPolygon"} -> "MultiPolygon"
    [] kw \in {"GEOMETRYCOLLECTION", "geometrycollection", "GeometryCollection"} ->
         "GeometryCollection"
    [] OTHER -> "nil"

RECURSIVE MarshalString(_)
RECURSIVE MarshalParts(_)
MarshalParts(gs) ==
  MarshalString(gs[1])
    \o (IF Len(gs) = 1 THEN <<>> ELSE <<",">> \o MarshalParts(Tail(gs)))

\* serialize: the keyword, then EMPTY or the parenthesized, comma-separated
\* coordinate tuples, nested for rings, parts and members.
MarshalString(g) ==
  IF g.coords = <<>>
  THEN <<Keyword(g.kind), " ", "EMPTY">>
  ELSE <<Keyword(g.kind), "(">>
         \o (IF g.kind = "GeometryCollection" THEN MarshalParts(g.coords)
             ELSE FormatList(Depth(g.kind), g.coords))
         \o <<")">>

\* ---- deserialize: a recursive descent over the symbols of the text.  Every
\* parser takes the text and a position and yields [ok, val, next].
NoParse == [ok |-> FALSE, val |-> <<>>, next |-> 0]
Parsed(v, n) == [ok |-> TRUE, val |-> v, next |-> n]

At(s, i) == IF i >= 1 /\ i <= Len(s) THEN s[i] ELSE ""

IsDigit(c) == \E i \in 1..Len(Digits) : Digits[i] = c

DigitVal(c) == (CHOOSE i \in 1..Len(Digits) : Digits[i] = c) - 1

\* the first position from i on that holds no digit
RECURSIVE DigitsEnd(_, _)
DigitsEnd(s, i) == IF IsDigit(At(s, i)) THEN DigitsEnd(s, i + 1) ELSE i

\* the number written by the digits s[i] .. s[j-1]
RECURSIVE DigitsVal(_, _, _)
DigitsVal(s, i, j) ==
  IF j <= i THEN 0 ELSE DigitsVal(s, i, j - 1) * 10 + DigitVal(s[j - 1])

\* mant * 10^shift as a whole number, halves rounded up
Scale(mant, shift) ==
  IF shift >= 0 THEN mant * Pow10(shift)
  ELSE (2 * mant + Pow10(-shift)) \div (2 * Pow10(-shift))

\* A decimal number, optionally in scientific notation: [-] digits
\* [. digits] [e [-|+] digits], rounded to Precision fractional digits.  The
\* integer digits are s[a..b-1]; the fraction, if any, s[b+1..c-1]; the
\* exponent digits, if any, s[d..e-1]; without a part its two positions
\* coincide.
NumberValue(s, neg, a, b, c, d, e) ==
  LET hasFrac == At(s, b) = "."
      hasExp == At(s, c) \in {"e", "E"}
      fracLen == IF hasFrac THEN c - (b + 1) ELSE 0
  IN IF b > a /\ (hasFrac => fracLen > 0) /\ (hasExp => e > d)
     THEN Parsed(
            (IF neg THEN -1 ELSE 1)
              * Scale(DigitsVal(s, a, b) * Pow10(fracLen)
                        + (IF hasFrac THEN DigitsVal(s, b + 1, c) ELSE 0),
                      (IF ~hasExp THEN 0
                       ELSE IF At(s, c + 1) = "-" THEN -DigitsVal(s, d, e)
                       ELSE DigitsVal(s, d, e)) - fracLen + Precision),
            e)
     ELSE NoParse

NumberExponent(s, neg, a, b, c, d) ==
  NumberValue(s, neg, a, b, c, d, IF d > c THEN DigitsEnd(s, d) ELSE c)

NumberFraction(s, neg, a, b, c) ==
  NumberExponent(s, neg, a, b, c,
    IF At(s, c) \notin {"e", "E"} THEN c
    ELSE IF At(s, c + 1) \in {"-", "+"} THEN c + 2 ELSE c + 1)

NumberInteger(s, neg, a, b) ==
  NumberFraction(s, neg, a, b,
    IF At(s, b) = "." THEN DigitsEnd(s, b + 1) ELSE b)

NumberSigned(s, neg, a) == NumberInteger(s, neg, a, DigitsEnd(s, a))

ParseNumber(s, i) ==
  IF At(s, i) = "-" THEN NumberSigned(s, TRUE, i + 1)
  ELSE NumberSigned(s, FALSE, i)

\* x y or x y z, single spaces between the numbers
TupleXYZ(x, y, z) ==
  IF z.ok THEN Parsed(<<x.val, y.val, z.val>>, z.next) ELSE NoParse

TupleXY(s, x, y) ==
  IF ~y.ok THEN NoParse
  ELSE IF At(s, y.next) # " " THEN Parsed(<<x.val, y.val>>, y.next)
  ELSE TupleXYZ(x, y, ParseNumber(s, y.next + 1))

TupleX(s, x) ==
  IF ~x.ok \/ At(s, x.next) # " " THEN NoParse
  ELSE TupleXY(s, x, ParseNumber(s, x.next + 1))

ParseTuple(s, i) == TupleX(s, ParseNumber(s, i))

\* a parsed item in front of the parsed rest of its list
Cons(item, rest) ==
  IF rest.ok THEN Parsed(<<item.val>> \o rest.val, rest.next) ELSE NoParse

\* a parsed list and its closing parenthesis
Close(s, inner) ==
  IF inner.ok /\ At(s, inner.next) = ")"
  THEN Parsed(inner.val, inner.next + 1)
  ELSE NoParse

\* the comma-separated items of a list of depth d: tuples at depth 1,
\* parenthesized lists below
RECURSIVE ParseItems(_, _, _)
ItemsAfter(d, s, item) ==
  IF ~item.ok THEN NoParse
  ELSE IF At(s, item.next) # "," THEN Parsed(<<item.val>>, item.next)
  ELSE Cons(item, ParseItems(d, s, item.next + 1))

ParseItems(d, s, i) ==
  ItemsAfter(d, s,
    IF d = 1 THEN ParseTuple(s, i)
    ELSE IF At(s, i) # "(" THEN NoParse
    ELSE Close(s, ParseItems(d - 1, s, i + 1)))

\* a geometry: keyword, then EMPTY or the parenthesized body
RECURSIVE ParseGeometry(_, _)
RECURSIVE ParseParts(_, _)
PartsAfter(s, g) ==
  IF ~g.ok THEN NoParse
  ELSE IF At(s, g.next) # "," THEN Parsed(<<g.val>>, g.next)
  ELSE Cons(g, ParseParts(s, g.next + 1))

ParseParts(s, i) == PartsAfter(s, ParseGeometry(s, i))

GeometryBody(s, k, body) ==
  IF body.ok /\ At(s, body.next) = ")"
  THEN Parsed(Geom(k, body.val), body.next + 1)
  ELSE NoParse

GeometryOf(s, i, k) ==
  IF k = "nil" THEN NoParse
  ELSE IF At(s, i + 1) = " " /\ At(s, i + 2) = "EMPTY"
       THEN Parsed(Geom(k, <<>>), i + 3)
  ELSE IF At(s, i + 1) # "(" THEN NoParse
  ELSE GeometryBody(s, k,
         IF k = "GeometryCollection" THEN ParseParts(s, i + 2)
         ELSE ParseItems(Depth(k), s, i + 2))

ParseGeometry(s, i) == GeometryOf(s, i, KindOf(At(s, i)))

ParseFail(g) == [geom |-> g, err |-> ParseErr]

\* The whole text must be one geometry that meets its variant's structural
\* invariant (ring closure, tuple count); anything else is a ParseError.
Accept(text, r) ==
  IF r.ok /\ r.next = Len(text) + 1 /\ WellFormed(r.val)
  THEN [geom |-> r.val, err |-> Nil]
  ELSE ParseFail(NilGeom)

Parse(text) == Accept(text, ParseGeometry(text, 1))

\* What UnmarshalString may hand back for a text.  On success the parsed
\* geometry and a nil error.  On failure the error is a ParseError; the
\* geometry handed back beside it is not fixed by the codec contract, so it
\* is either nil or a partly built value.
Handed(p) ==
  IF p.err = Nil THEN {p}
  ELSE {ParseFail(NilGeom), ParseFail(Geom("Point", <<>>))}

UnmarshalString(text) == Handed(Parse(text))

\* ------------------------------------------------------ geometries in use
\* Coordinates in units of 10^-Precision: zero, negative, fractional and
\* several-digit values.
Tuples2 == << <<0, -15>>, <<120, 7>>, <<-15, 1203>> >>
Tuples3 == << <<0, -15, 7>>, <<120, 7, -1203>>, <<-15, 1203, 0>> >>
TupleSeqs == {Tuples2, Tuples3}

Range(f) == {f[i] : i \in DOMAIN f}
SeqsOf(S, lo, hi) == UNION {[1..n -> S] : n \in lo..hi}

Triangle(T) == Closed(<<T[1], T[2], T[3]>>)
Hole(T) == Closed(<<T[3], T[1], T[2]>>)
HolePool(T) == {Triangle(T), Hole(T)}
LinePool(T) == [1..2 -> Range(T)]
PolygonPool(T) == { <<Triangle(T)>>, <<Hole(T)>>, <<Triangle(T), Hole(T)>> }
MemberPool(T) ==
  { Geom("Point", <<T[1]>>),
    Geom("LineString", <<T[1], T[2]>>),
    Geom("Polygon", <<Triangle(T), Hole(T)>>),
    Geom("MultiPoint", << <<T[2]>>, <<T[3]>> >>),
    Geom("LineString", <<>>),
    Geom("GeometryCollection", << Geom("Point", <<T[3]>>) >>) }

\* The well-formed geometries within the bounds, in 2D and in 3D.
GeomsOver(T) ==
  {Geom("Point", <<t>>) : t \in Range(T)}
  \cup {Geom("LineString", l) : l \in SeqsOf(Range(T), 2, MaxPts)}
  \cup {Geom("Polygon", <<Closed(o)>> \o hs) :
          o \in SeqsOf(Range(T), 3, MaxPts),
          hs \in SeqsOf(HolePool(T), 0, MaxParts - 1)}
  \cup {Geom("MultiPoint", [i \in 1..Len(ps) |-> <<ps[i]>>]) :
          ps \in SeqsOf(Range(T), 1, MaxParts)}
  \cup {Geom("MultiLineString", ls) : ls \in SeqsOf(LinePool(T), 1, MaxParts)}
  \cup {Geom("MultiPolygon", ps) : ps \in SeqsOf(PolygonPool(T), 1, MaxParts)}
  \cup {Geom("GeometryCollection", gs) : gs \in SeqsOf(MemberPool(T), 1, MaxParts)}

Geoms ==
  {Geom(k, <<>>) : k \in Kinds} \cup UNION {GeomsOver(T) : T \in TupleSeqs}

SampleGeoms ==
  { Geom("Point", << <<10, 20>> >>),
    Geom("LineString", << <<0, -15, 7>>, <<120, 7, 0>> >>),
    Geom("Polygon", << Triangle(Tuples2), <<  <<1, 1>>, <<2, 1>>, <<2, 2>>, <<1, 1>> >> >>) }

\* ------------------------------------------------- the operation catalog
\* One row per method of GEOAlgorithm, read off its body:
\*   fn     the function of package geo it calls,
\*   pass   which of its geometry arguments it passes, in the order passed,
\*   nscal  how many scalar parameters it passes on,
\*   ret    the type of its first result,
\*   style  how it returns:
\*     "direct"   return geo.F(...)
\*     "shared"   SharedPaths: "" and the error on failure, s and nil otherwise
\*     "checked"  nil, e on either failure; geometry, nil otherwise
\*     "tail"     nil, e on engine failure; return UnmarshalString(text)
\*     "buffer"   Buffer: a single result, no error
Op(name, fn, pass, nscal, ret, style) ==
  [name |-> name, fn |-> fn, pass |-> pass, nscal |-> nscal, ret |-> ret,
   style |-> style]

Area == Op("Area", "Area", <<1>>, 0, "float", "direct")

Boundary == Op("Boundary", "Boundary", <<1>>, 0, "geom", "checked")

Centroid == Op("Centroid", "Centroid", <<1>>, 0, "geom", "checked")

IsSimple == Op("IsSimple", "IsSimple", <<1>>, 0, "bool", "direct")

Length == Op("Length", "Length", <<1>>, 0, "float", "direct")

Distance == Op("Distance", "Distance", <<1, 2>>, 0, "float", "direct")

HausdorffDistance == Op("HausdorffDistance", "HausdorffDistance", <<1, 2>>, 0, "float", "direct")

IsEmpty == Op("IsEmpty", "IsEmpty", <<1>>, 0, "bool", "direct")

Envelope == Op("Envelope", "Envelope", <<1>>, 0, "geom", "tail")

ConvexHull == Op("ConvexHull", "ConvexHull", <<1>>, 0, "geom", "tail")

UnaryUnion == Op("UnaryUnion", "UnaryUnion", <<1>>, 0, "geom", "tail")

PointOnSurface == Op("PointOnSurface", "PointOnSurface", <<1>>, 0, "geom", "tail")

LineMerge == Op("LineMerge", "LineMerge", <<1>>, 0, "geom", "tail")

Simplify == Op("Simplify", "Simplify", <<1>>, 1, "geom", "tail")

SimplifyP == Op("SimplifyP", "SimplifyP", <<1>>, 1, "geom", "tail")

Overlaps == Op("Overlaps", "Overlaps", <<1, 2>>, 0, "bool", "direct")

Equals == Op("Equals", "Equals", <<1, 2>>, 0, "bool", "direct")

Covers == Op("Covers", "Covers", <<1, 2>>, 0, "bool", "direct")

CoveredBy == Op("CoveredBy", "CoversBy", <<1, 2>>, 0, "bool", "direct")

IsRing == Op("IsRing", "IsRing", <<1>>, 0, "bool", "direct")

HasZ == Op("HasZ", "HasZ", <<1>>, 0, "bool", "direct")

IsClosed == Op("IsClosed", "IsClosed", <<1>>, 0, "bool", "direct")

NGeometry == Op("NGeometry", "NGeometry", <<1>>, 0, "int", "direct")

Buffer == Op("Buffer", "Buffer", <<1>>, 2, "geom", "buffer")

EqualsExact == Op("EqualsExact", "EqualsExact", <<1, 2>>, 1, "bool", "direct")

HausdorffDistanceDensify == Op("HausdorffDistanceDensify", "HausdorffDistanceDensify", <<1, 2>>, 1, "float", "direct")

Relate == Op("Relate", "Relate", <<1, 2>>, 0, "string", "direct")

Crosses == Op("Crosses", "Crosses", <<1, 2>>, 0, "bool", "direct")

Within == Op("Within", "Within", <<1, 2>>, 0, "bool", "direct")

Contains == Op("Contains", "Contains", <<1, 2>>, 0, "bool", "direct")

UniquePoints == Op("UniquePoints", "UniquePoints", <<1>>, 0, "geom", "checked")

SharedPaths == Op("SharedPaths", "SharedPaths", <<1, 2>>, 0, "string", "shared")

Snap == Op("Snap", "Snap", <<1, 2>>, 1, "geom", "checked")

Intersection == Op("Intersection", "Intersection", <<1, 2>>, 0, "geom", "checked")

DifferenceSwapped == Op("Difference", "Difference", <<2, 1>>, 0, "geom", "checked")

Difference == Op("Difference", "Difference", <<1, 2>>, 0, "geom", "checked")

SymDifference == Op("SymDifference", "SymDifference", <<1, 2>>, 0, "geom", "checked")

Union == Op("Union", "Union", <<1, 2>>, 0, "geom", "checked")

Disjoint == Op("Disjoint", "Disjoint", <<1, 2>>, 0, "bool", "direct")

Touches == Op("Touches", "Touches", <<1, 2>>, 0, "bool", "direct")

Intersects == Op("Intersects", "Intersects", <<1, 2>>, 0, "bool", "direct")

Catalog ==
  { Area, Boundary, Centroid, IsSimple, Length,
    Distance, HausdorffDistance, IsEmpty, Envelope, ConvexHull,
    UnaryUnion, PointOnSurface, LineMerge, Simplify, SimplifyP,
    Overlaps, Equals, Covers, CoveredBy, IsRing,
    HasZ, IsClosed, NGeometry, Buffer, EqualsExact,
    HausdorffDistanceDensify, Relate, Crosses, Within, Contains,
    UniquePoints, SharedPaths, Snap, Intersection, Difference,
    SymDifference, Union, Disjoint, Touches, Intersects }


Row(op) == CHOOSE r \in Catalog : r.name = op

\* ----------------------------------------------------- the external engine
\* Texts the engine can hand back where geometry text is expected: the text
\* of its first argument, the text of another geometry, a text with a
\* lower-case keyword and a number in scientific notation, and two texts the
\* codec rejects (unbalanced parentheses, unknown keyword).
ResultGeom == Geom("MultiPoint", << <<Tuples2[1]>>, <<Tuples2[2]>> >>)
BadUnbalanced == <<"POLYGON", "(", "(", "0", " ", "0", ",", "1", " ", "1", ")">>
BadKeyword == <<"CIRCLE", "(", "0", " ", "0", ")">>
SciText == <<"point", "(", "1", "e", "1", " ", "-", "2", ".", "5", ")">>

EngineVals(ret) ==
  CASE ret = "float" -> {<<"0">>, <<"16">>}
    [] ret = "bool" -> {<<"false">>, <<"true">>}
    [] ret = "int" -> {<<"0">>, <<"1">>}
    [] ret = "string" -> {<<>>, <<"FF2FF1212">>}

\* Every pair (value, error) a function of package geo may return: on
\* failure the value beside the error is not fixed (empty or not).
EngineResponses(r, texts) ==
  IF r.ret = "geom"
  THEN {[val |-> t, err |-> Nil] :
          t \in {texts[1], MarshalString(ResultGeom), SciText, BadUnbalanced,
                 BadKeyword}}
       \cup {[val |-> t, err |-> EngineErr] : t \in {<<>>, texts[1]}}
  ELSE {[val |-> v, err |-> e] : v \in EngineVals(r.ret), e \in {Nil, EngineErr}}

\* ------------------------------------------------------------- call state
NoReq == [fn |-> "", texts |-> <<>>, scalars |-> <<>>]
NoEng == [val |-> <<>>, err |-> Nil]
NoDec == [geom |-> NilGeom, err |-> Nil]
NoRes == [geom |-> NilGeom, val |-> <<>>, err |-> Nil]

IdleCall ==
  [pc |-> "idle", op |-> "", g |-> <<>>, in |-> <<>>, scalars |-> <<>>,
   texts |-> <<>>, req |-> NoReq, eng |-> NoEng, dec |-> NoDec, res |-> NoRes,
   log |-> <<>>]

CodecOff == [pc |-> "off", g |-> NilGeom, text |-> <<>>, out |-> NoDec]

\* The request an operation sends: its engine function, the texts of its
\* geometry arguments in the order it passes them, its scalar parameters.
EngineRequestShared(c) ==
  LET r == Row(calls[c].op)
      first == CHOOSE d \in DOMAIN calls : \A e \in DOMAIN calls : d <= e IN
  [fn |-> r.fn,
   texts |-> [i \in 1..Len(r.pass) |->
                IF Len(calls[first].texts) = 0 THEN calls[c].texts[r.pass[i]]
                ELSE calls[first].texts[1]],
   scalars |-> calls[c].scalars]

EngineRequest(c) ==
  LET r == Row(calls[c].op) IN
  [fn |-> r.fn,
   texts |-> [i \in 1..Len(r.pass) |-> calls[c].texts[r.pass[i]]],
   scalars |-> calls[c].scalars]

\* Where an operation goes once the engine has returned (value, e).
AfterEngineNoCheck(r, e) ==
  IF r.ret = "geom" THEN "unmarshal" ELSE "return"

AfterEngineRetry(r, e) ==
  IF e # Nil THEN "invoke"
  ELSE IF r.ret = "geom" THEN "unmarshal" ELSE "return"

AfterEngine(r, e) ==
  IF r.ret # "geom" THEN "return"
  ELSE IF e # Nil THEN "return" ELSE "unmarshal"

\* What each style of operation returns.
ReturnDirectZeroed(eng) ==
  [geom |-> NilGeom, val |-> IF eng.err # Nil THEN <<>> ELSE eng.val, err |-> eng.err]

ReturnDirect(eng) ==
  [geom |-> NilGeom, val |-> eng.val, err |-> eng.err]

ReturnShared(eng) ==
  IF eng.err # Nil
  THEN [geom |-> NilGeom, val |-> <<>>, err |-> eng.err]
  ELSE [geom |-> NilGeom, val |-> eng.val, err |-> Nil]

ReturnChecked(eng, dec) ==
  IF eng.err # Nil
  THEN [geom |-> NilGeom, val |-> <<>>, err |-> eng.err]
  ELSE IF dec.err # Nil
       THEN [geom |-> NilGeom, val |-> <<>>, err |-> dec.err]
       ELSE [geom |-> dec.geom, val |-> <<>>, err |-> Nil]

ReturnTail(eng, dec) ==
  IF eng.err # Nil
  THEN [geom |-> NilGeom, val |-> <<>>, err |-> eng.err]
  ELSE [geom |-> dec.geom, val |-> <<>>, err |-> dec.err]

ReturnBuffer(eng, dec) ==
  IF eng.err # Nil
  THEN [geom |-> NilGeom, val |-> <<>>, err |-> Nil]
  ELSE [geom |-> dec.geom, val |-> <<>>, err |-> Nil]

ReturnValue(r, eng, dec) ==
  CASE r.style = "direct" -> ReturnDirect(eng)
    [] r.style = "shared" -> ReturnShared(eng)
    [] r.style = "checked" -> ReturnChecked(eng, dec)
    [] r.style = "tail" -> ReturnTail(eng, dec)
    [] r.style = "buffer" -> ReturnBuffer(eng, dec)

\* ---------------------------------------------------------------- actions
\* A caller invokes an operation of `rows` on geometries it holds.
Begin(c, rows) ==
  /\ calls[c].pc = "idle"
  /\ \E r \in rows :
       \E g \in [1..Len(r.pass) -> DOMAIN heap], sc \in [1..r.nscal -> ScalarVals] :
         calls' = [calls EXCEPT ![c] =
                     [IdleCall EXCEPT !.pc = "marshal", !.op = r.name, !.g = g,
                                      !.in = [i \in 1..Len(g) |-> heap[g[i]]],
                                      !.scalars = sc]]
  /\ UNCHANGED <<heap, codec>>

Call(c) == Begin(c, Catalog)

\* s := MarshalString(g): the next geometry argument is serialized.
Marshal(c) ==
  LET k == calls[c]
      i == Len(k.texts) + 1 IN
  /\ k.pc = "marshal"
  /\ calls' = [calls EXCEPT ![c] =
                 [k EXCEPT !.texts = Append(k.texts, MarshalString(heap[k.g[i]])),
                           !.log = Append(k.log, "MarshalString"),
                           !.pc = IF i = Len(k.g) THEN "invoke" ELSE "marshal"]]
  /\ UNCHANGED <<heap, codec>>

\* v, e := geo.F(texts, scalars): the engine is called and answers.
Invoke(c) ==
  LET k == calls[c]
      r == Row(k.op) IN
  /\ k.pc = "invoke"
  /\ \E a \in EngineResponses(r, k.texts) :
       calls' = [calls EXCEPT ![c] =
                   [k EXCEPT !.req = EngineRequest(c),
                             !.eng = a,
                             !.log = Append(k.log, "engine"),
                             !.pc = AfterEngine(r, a.err)]]
  /\ UNCHANGED <<heap, codec>>

UnmarshalInPlace(c) ==
  LET k == calls[c] IN
  /\ k.pc = "unmarshal"
  /\ \E d \in UnmarshalString(k.eng.val) :
       /\ calls' = [calls EXCEPT ![c] =
                      [k EXCEPT !.dec = d,
                                !.log = Append(k.log, "UnmarshalString"),
                                !.pc = "return"]]
       /\ heap' = IF d.err = Nil THEN [heap EXCEPT ![k.g[1]] = d.geom] ELSE heap
  /\ UNCHANGED codec

\* geometry, e := UnmarshalString(text)
Unmarshal(c) ==
  LET k == calls[c] IN
  /\ k.pc = "unmarshal"
  /\ \E d \in UnmarshalString(k.eng.val) :
       calls' = [calls EXCEPT ![c] =
                   [k EXCEPT !.dec = d,
                             !.log = Append(k.log, "UnmarshalString"),
                             !.pc = "return"]]
  /\ UNCHANGED <<heap, codec>>

\* return ...
Return(c) ==
  LET k == calls[c] IN
  /\ k.pc = "return"
  /\ calls' = [calls EXCEPT ![c] =
                 [k EXCEPT !.res = ReturnValue(Row(k.op), k.eng, k.dec),
                           !.log = Append(k.log, "return"),
                           !.pc = "done"]]
  /\ UNCHANGED <<heap, codec>>

\* The caller is done with the results; it may call again.
Release(c) ==
  /\ calls[c].pc = "done"
  /\ calls' = [calls EXCEPT ![c] = IdleCall]
  /\ UNCHANGED <<heap, codec>>

Init ==
  /\ heap \in [ObjIds -> SampleGeoms]
  /\ calls = [c \in {1} |-> IdleCall]
  /\ codec = CodecOff

Next ==
  \/ \E c \in DOMAIN calls : Call(c)
  \/ \E c \in DOMAIN calls : Marshal(c)
  \/ \E c \in DOMAIN calls : Invoke(c)
  \/ \E c \in DOMAIN calls : Unmarshal(c)
  \/ \E c \in DOMAIN calls : Return(c)
  \/ \E c \in DOMAIN calls : Release(c)

Spec == Init /\ [][Next]_vars


\* ------------------------------------------------------- concurrent callers
\* NumCalls callers on their own threads share the geometries of one heap;
\* each calls the operations of ConcCatalog: a binary operation that returns
\* the engine's pair and a unary one that deserializes the engine's text.
ConcCatalog == {Distance, Boundary}

ConcHeap ==
  << Geom("Point", << <<10, 20>> >>),
     Geom("LineString", << <<0, -15, 7>>, <<120, 7, 0>> >>) >>

CallC(c) == Begin(c, ConcCatalog)

InitC ==
  /\ heap = ConcHeap
  /\ calls = [c \in 1..NumCalls |-> IdleCall]
  /\ codec = CodecOff

NextC ==
  \/ \E c \in DOMAIN calls : CallC(c)
  \/ \E c \in DOMAIN calls : Marshal(c)
  \/ \E c \in DOMAIN calls : Invoke(c)
  \/ \E c \in DOMAIN calls : Unmarshal(c)
  \/ \E c \in DOMAIN calls : Return(c)
  \/ \E c \in DOMAIN calls : Release(c)

SpecC == InitC /\ [][NextC]_vars

\* ------------------------------------------------------ the codec on its own
\* serialize, then deserialize, any well-formed geometry within the bounds.
Encode ==
  /\ codec.pc = "start"
  /\ codec' = [codec EXCEPT !.pc = "encoded", !.text = MarshalString(codec.g)]
  /\ UNCHANGED <<heap, calls>>

Decode ==
  /\ codec.pc = "encoded"
  /\ \E d \in UnmarshalString(codec.text) :
       codec' = [codec EXCEPT !.pc = "decoded", !.out = d]
  /\ UNCHANGED <<heap, calls>>

InitCodec ==
  /\ heap = ConcHeap
  /\ calls = [c \in {1} |-> IdleCall]
  /\ \E g \in Geoms :
       codec = [pc |-> "start", g |-> g, text |-> <<>>, out |-> NoDec]

NextCodec == Encode \/ Decode

SpecCodec == InitCodec /\ [][NextCodec]_vars


\* ================================================================ claims
CallIds == DOMAIN calls
Unmarshalled(k) == \E i \in 1..Len(k.log) : k.log[i] = "UnmarshalString"
Answered(k) == k.pc \in {"unmarshal", "return", "done"}
GeomOps == {r.name : r \in {q \in Catalog : q.ret = "geom"}}
ScalarOps == {r.name : r \in {q \in Catalog : q.ret # "geom"}}
GeomErrOps ==
  {"Boundary", "Centroid", "Envelope", "ConvexHull", "UnaryUnion",
   "PointOnSurface", "LineMerge", "Simplify", "SimplifyP", "UniquePoints",
   "Snap", "Intersection", "Difference", "SymDifference", "Union"}
IsPrefix(s, t) == Len(s) <= Len(t) /\ s = SubSeq(t, 1, Len(s))

\* C1: whenever the engine call fails, or deserialization of the engine's
\* text fails, the operation hands its caller a non-nil error.
C1_EveryErrorReturned ==
  \A c \in CallIds :
    LET k == calls[c] IN
    (k.pc = "done" /\ (k.eng.err # Nil \/ (Unmarshalled(k) /\ k.dec.err # Nil)))
      => k.res.err # Nil

\* C2: in the fifteen geometry-returning operations with an error result, an
\* engine failure means UnmarshalString is never invoked and the operation
\* returns a nil geometry with exactly the engine's error.
C2_EngineFailurePropagated ==
  \A c \in CallIds :
    LET k == calls[c] IN
    (k.op \in GeomErrOps /\ Answered(k) /\ k.eng.err # Nil)
      => /\ k.pc # "unmarshal"
         /\ ~Unmarshalled(k)
         /\ k.pc = "done" => (k.res.geom = NilGeom /\ k.res.err = k.eng.err)

C2_Witness ==
  \E c \in CallIds :
    /\ calls[c].pc = "done" /\ calls[c].op = "Snap"
    /\ calls[c].eng.err = EngineErr /\ calls[c].eng.val # <<>>

Cause(eng, dec) ==
  IF eng.err # Nil THEN "engine" ELSE IF dec.err # Nil THEN "decode" ELSE "ok"

Outcomes(r, texts) ==
  UNION {{[res |-> ReturnValue(r, e, d), cause |-> Cause(e, d)] :
            d \in IF e.err = Nil THEN UnmarshalString(e.val) ELSE {NoDec}} :
         e \in EngineResponses(r, texts)}

\* C3: from what a geometry-returning operation returns, its caller can tell
\* an engine failure from a deserialization failure from a success: no other
\* outcome of the same call with a different cause returns the same values.
C3_CauseDistinguishable ==
  \A c \in CallIds :
    LET k == calls[c] IN
    (k.pc = "done" /\ k.op \in GeomOps)
      => \A o \in Outcomes(Row(k.op), k.texts) :
           o.res = k.res => o.cause = Cause(k.eng, k.dec)

\* C4: a geometry-returning operation that returns a non-nil error returns a
\* nil geometry, whatever UnmarshalString handed back beside its error.
C4_NoPartialResult ==
  \A c \in CallIds :
    LET k == calls[c] IN
    (k.pc = "done" /\ k.op \in GeomOps /\ k.res.err # Nil) => k.res.geom = NilGeom

ExpectedLog(k) ==
  [i \in 1..Len(k.g) |-> "MarshalString"]
    \o <<"engine">>
    \o (IF k.op \in GeomOps /\ k.eng.err = Nil THEN <<"UnmarshalString">> ELSE <<>>)
    \o <<"return">>

\* C5: the events of a call are, in this order: one MarshalString per geometry
\* argument, one engine call, one UnmarshalString if and only if the result is
\* a geometry and the engine succeeded, the return; every unfinished call has
\* done a prefix of that.
C5_EventOrder ==
  \A c \in CallIds :
    LET k == calls[c] IN
    k.pc # "idle" =>
      /\ IsPrefix(k.log, ExpectedLog(k))
      /\ k.pc = "done" => k.log = ExpectedLog(k)
      /\ Len(k.log) > Len(k.g) => k.pc # "invoke"

C5_Witness ==
  \E c \in CallIds :
    /\ calls[c].pc = "done" /\ calls[c].op = "Intersection"
    /\ calls[c].log =
         <<"MarshalString", "MarshalString", "engine", "UnmarshalString", "return">>

EngineName(op) == IF op = "CoveredBy" THEN "CoversBy" ELSE op

\* C6: the request an operation sends names the engine function of the
\* operation's own name (CoversBy is the engine's covered-by function) and
\* carries the texts of the caller's geometries in the caller's order and the
\* caller's scalar parameters unchanged.
C6_DispatchByName ==
  \A c \in CallIds :
    LET k == calls[c] IN
    Answered(k) =>
      /\ k.req.fn = EngineName(k.op)
      /\ k.req.texts = [i \in 1..Len(k.in) |-> MarshalString(k.in[i])]
      /\ k.req.scalars = k.scalars

C6_Witness ==
  \E c \in CallIds :
    /\ calls[c].pc = "done" /\ calls[c].op = "Difference"
    /\ calls[c].in[1] # calls[c].in[2]

\* C7: with callers interleaved in any order, everything a call computes is a
\* function of its own arguments and of the answers the engine and the codec
\* gave to it.
C7_CallsIndependent ==
  \A c \in CallIds :
    LET k == calls[c] IN
    k.pc # "idle" =>
      /\ k.texts = [i \in 1..Len(k.texts) |-> MarshalString(k.in[i])]
      /\ Answered(k) =>
           /\ k.req = [fn |-> Row(k.op).fn,
                       texts |-> [i \in 1..Len(k.in) |-> MarshalString(k.in[i])],
                       scalars |-> k.scalars]
           /\ k.eng \in EngineResponses(Row(k.op), k.req.texts)
      /\ Unmarshalled(k) => k.dec \in UnmarshalString(k.eng.val)
      /\ k.pc = "done" => k.res = ReturnValue(Row(k.op), k.eng, k.dec)

C7_Witness ==
  \E c, d \in CallIds :
    /\ c # d
    /\ calls[c].pc = "done" /\ calls[d].pc = "return"
    /\ calls[c].op = "Boundary" /\ calls[d].op = "Distance"
    /\ calls[c].in[1] # calls[d].in[1]

\* C8: the geometries passed to an operation hold, at every step of the call
\* and after it, the values they held when the call was made.
C8_InputsUnchanged ==
  \A c \in CallIds :
    LET k == calls[c] IN
    k.pc # "idle" => \A i \in 1..Len(k.g) : heap[k.g[i]] = k.in[i]

C8_Witness ==
  \E c \in CallIds :
    /\ calls[c].pc = "done" /\ calls[c].op = "Snap"
    /\ calls[c].res.err = Nil /\ calls[c].res.geom # calls[c].in[1]

\* C9: deserializing the text of a well-formed geometry succeeds and yields a
\* geometry of the same variant and coordinates.
C9_RoundTrip ==
  codec.pc = "decoded" =>
    /\ WellFormed(codec.g)
    /\ codec.out.err = Nil
    /\ SpatialEq(codec.out.geom, codec.g)

C9_Witness ==
  /\ codec.pc = "decoded"
  /\ codec.g.kind = "MultiPolygon" /\ Len(codec.g.coords) = 2
  /\ Len(codec.g.coords[1]) = 2
  /\ codec.g.coords[1][1][2] = <<120, 7, -1203>>
  /\ codec.out.geom = codec.g

PassThroughGeom(k) ==
  (k.op \in GeomOps /\ k.eng.err = Nil /\ k.dec.err = Nil)
    => (k.res.geom = k.dec.geom /\ k.res.err = Nil)

\* C10 (as claimed): (a) on engine and codec success a geometry-returning
\* operation returns the decoded geometry and a nil error; (b) every scalar
\* operation, SharedPaths included, returns the engine's value and error
\* verbatim and never invokes UnmarshalString.
C10_PassThrough ==
  \A c \in CallIds :
    LET k == calls[c] IN
    k.pc = "done" =>
      /\ PassThroughGeom(k)
      /\ k.op \in ScalarOps =>
           (k.res.val = k.eng.val /\ k.res.err = k.eng.err /\ ~Unmarshalled(k))

\* C10 (amended): as above, except that SharedPaths on engine failure returns
\* the empty string, not the engine's string, beside the engine's error.
C10_PassThroughAmended ==
  \A c \in CallIds :
    LET k == calls[c] IN
    k.pc = "done" =>
      /\ PassThroughGeom(k)
      /\ k.op \in ScalarOps =>
           /\ k.res.err = k.eng.err
           /\ ~Unmarshalled(k)
           /\ k.res.val = IF k.op = "SharedPaths" /\ k.eng.err # Nil
                          THEN <<>> ELSE k.eng.val

C10_Witness ==
  \E c \in CallIds :
    /\ calls[c].pc = "done" /\ calls[c].op = "SharedPaths"
    /\ calls[c].eng.err = EngineErr /\ calls[c].eng.val # <<>>
    /\ calls[c].res.val = <<>>

====
